---- MODULE Spec2Model ----
(***************************************************************************)
(* Model of main.py (NRTK content sync): the NRTKSync object, the files it *)
(* keeps on disk (content directory, snapshot directories, meta.json) and  *)
(* the main program's one-shot / Infinity-mode loop.                       *)
(*                                                                         *)
(* Python values are modelled as TLA+ functions: a dict is a function, a   *)
(* key is present iff it is in the DOMAIN.  None is the record None.       *)
(* A directory is a function from the names of the files in it to their    *)
(* contents.                                                               *)
(***************************************************************************)
EXTENDS Naturals, Sequences, FiniteSets

\* ------------------------------------------------------------------ bounds

\* Sync cycles started in one behaviour (over all processes).
MaxCycles == 2
\* Longest `stories` list of a remote document.
MaxStories == 2

\* ------------------------------------------------------- program constants

MIN_SYNC_CYCLE == 60
META_FILE_NAME == "meta.json"

theme_required_fields ==
    {"homepage_url", "stories", "error_page", "entity", "title"}
story_required_fields ==
    {"canonical_url", "content", "anchor", "updated_at", "title",
     "is_landing", "hash", "uid", "credits"}

\* ------------------------------------------------------------ Python values

None == [py_none |-> TRUE]
EmptyDict == [k \in {} |-> TRUE]

\* bool(x) of a dict-or-None value
Truthy(x) == x # None /\ DOMAIN x # {}

\* d[k] = v on a dict
DictSet(d, k, v) == [x \in DOMAIN d \cup {k} |-> IF x = k THEN v ELSE d[x]]

\* ------------------------------------------------------------- input space

\* The stories a remote document is built from.  updated_at is kept as the
\* first 19 characters and the rest, which is all create_sitemap_item reads.
\* Anchors are story slugs: none is "error.html", "sitemap.xml" or
\* "meta.json", the names the program itself writes.
MkStory(anchor, hash, content) ==
    [canonical_url |-> <<"https://site/", anchor>>,
     content       |-> content,
     anchor        |-> anchor,
     updated_at    |-> [first19 |-> <<"2025-01-01T00:00:00", hash>>,
                        rest    |-> ".000000Z"],
     title         |-> <<"title", anchor>>,
     is_landing    |-> (anchor = "index"),
     hash          |-> hash,
     uid           |-> <<"uid", anchor>>,
     credits       |-> "credits"]

\* a story dict without the key `field`
WithoutField(d, field) == [k \in DOMAIN d \ {field} |-> d[k]]

ValidStories ==
    {MkStory("index", "h1", "c1"),
     MkStory("index", "h2", "c2"),
     MkStory("about", "h1", "c3")}

\* The stories of a site that changes content without renewing the hash.
EditedStories ==
    {MkStory("index", "h1", "c1"),
     MkStory("index", "h1", "c2"),
     MkStory("about", "h1", "c3")}

InvalidStories == {WithoutField(MkStory("about", "h2", "c4"), "hash")}

Stories == ValidStories \cup InvalidStories

\* Lists of at most MaxStories stories.  Validation returns at the first
\* story that lacks a field and nothing reads the stories after it, so the
\* lists with such a story have it last.
StoryListsOf(valid) ==
    {s \in UNION {[1..n -> valid \cup InvalidStories] : n \in 0..MaxStories} :
        \A i \in 1..(Len(s) - 1) : s[i] \in valid}

StoryLists == StoryListsOf(ValidStories)

MkDocument(stories) ==
    [homepage_url |-> "https://site/",
     stories      |-> stories,
     error_page   |-> "e1",
     entity       |-> "entity",
     title        |-> "site"]

\* Parsed JSON values the remote can answer with: full documents, a document
\* lacking a required top-level key, and the empty object.
DocumentsOf(lists) ==
    {MkDocument(s) : s \in lists}
        \cup {WithoutField(MkDocument(<<>>), "title")}
        \cup {EmptyDict}

Documents == DocumentsOf(StoryLists)

\* What urlopen gives fetch_content: an HTTPError/URLError ("error"), or a
\* response with a status code and a body that is JSON text or not.
ResponsesOf(documents) ==
    {[kind |-> "error"]}
        \cup {[kind |-> "response", code |-> 204, json |-> TRUE, data |-> EmptyDict]}
        \cup {[kind |-> "response", code |-> 200, json |-> FALSE, data |-> EmptyDict]}
        \cup {[kind |-> "response", code |-> 200, json |-> TRUE, data |-> d] :
                 d \in documents}

Responses == ResponsesOf(Documents)

\* The same for the site of EditedStories.
EditedResponses == ResponsesOf(DocumentsOf(StoryListsOf(EditedStories)))

\* Files found in the content directory before the first run.
InitialWww ==
    {EmptyDict, [f \in {"junk"} |-> [text |-> "c0"]]}

\* meta.json before the first run: missing, or present and not parseable.
MalformedMeta == [malformed |-> TRUE]
InitialMetaFiles == {None, MalformedMeta}

\* -------------------------------------------------------------------- state

VARIABLES
    pc,                 \* position of the main program
    infinity_timer,     \* seconds, 0 when unset
    site_stories,       \* the remote site: "hashed" or "edited" stories
    cycles,             \* sync cycles started so far
    www,                \* content directory: file name -> content
    bin,                \* snapshots root: directory name -> (file name -> content)
    meta_file,          \* content of meta.json, None when there is no file
    meta_file_content,  \* NRTKSync.meta_file_content
    meta_object,        \* NRTKSync.meta_object
    story_dictonary,    \* NRTKSync.story_dictonary
    bin_path,           \* NRTKSync.bin_path: None or [dir |-> name]
    remote_data,        \* NRTKSync.remote_data
    api_response,       \* local of sync()
    sitemap_items,      \* local of sync_stories()
    outcome,            \* how the current cycle ended, "running" until then
    sync_result,        \* value returned by the last sync() call
    start,              \* disk at the start of the current cycle
    archived,           \* names clean_local_storage moved in this cycle
    deleted,            \* names clean_local_storage removed in this cycle
    last_synced         \* document and cycle of the last record save_meta wrote

vars == <<pc, infinity_timer, site_stories, cycles, www, bin, meta_file, meta_file_content,
          meta_object, story_dictonary, bin_path, remote_data, api_response,
          sitemap_items, outcome, sync_result, start, archived, deleted,
          last_synced>>

disk == <<www, bin, meta_file>>
memory == <<meta_file_content, meta_object, story_dictonary, bin_path, remote_data>>
ghost == <<start, archived, deleted, last_synced>>

Unset == [unset |-> TRUE]

\* Class attributes of NRTKSync (lines 76-82) and the main program up to the
\* first read_meta.
Started ==
    /\ pc = "read_meta"
    /\ infinity_timer \in {0, MIN_SYNC_CYCLE - 1, MIN_SYNC_CYCLE}
    /\ cycles = 0
    /\ www \in InitialWww
    /\ bin = EmptyDict
    /\ meta_file \in InitialMetaFiles
    /\ meta_file_content = None
    /\ meta_object = None
    /\ story_dictonary = EmptyDict
    /\ bin_path = None
    /\ remote_data = Unset
    /\ api_response = None
    /\ sitemap_items = <<>>
    /\ outcome = "idle"
    /\ sync_result = "none"
    /\ start = [www |-> www, bin |-> bin, meta_file |-> meta_file]
    /\ archived = {}
    /\ deleted = {}
    /\ last_synced = None

\* The program against a site whose stories carry a hash of their content.
Init == Started /\ site_stories = "hashed"

\* The program against a site that edits content under the same hash.
InitEdited == Started /\ site_stories = "edited"

\* ------------------------------------------------------------ main program

\* line 400: `if infinity_timer and infinity_timer >= MIN_SYNC_CYCLE`
InfinityMode == infinity_timer # 0 /\ infinity_timer >= MIN_SYNC_CYCLE

\* where the main program goes when sync() has returned (lines 404-411)
AfterSync == IF InfinityMode THEN "sleep" ELSE "exited"

\* json.dump / json.load of a dict of JSON values with string keys
JsonDump(obj) == [json_text_of |-> obj]
JsonParses(text) == "json_text_of" \in DOMAIN text
JsonLoad(text) == text.json_text_of

\* read_meta (lines 104-116): "value" is what it returns, "raised" says that
\* json.load raised JSONDecodeError, which `except OSError` does not catch.
read_meta(file) ==
    IF file = None
    THEN [raised |-> FALSE, value |-> None]
    ELSE IF JsonParses(file)
         THEN [raised |-> FALSE, value |-> JsonLoad(file)]
         ELSE [raised |-> TRUE, value |-> None]

\* lines 405 / 410: sync.meta_file_content = sync.read_meta()
ReadMeta ==
    /\ pc = "read_meta"
    /\ cycles' = cycles + 1
    /\ start' = [www |-> www, bin |-> bin, meta_file |-> meta_file]
    /\ archived' = {}
    /\ deleted' = {}
    /\ LET r == read_meta(meta_file) IN
         IF r.raised
         THEN /\ pc' = "crashed"
              /\ outcome' = "raised"
              /\ UNCHANGED meta_file_content
         ELSE /\ pc' = "fetch"
              /\ outcome' = "running"
              /\ meta_file_content' = r.value
    /\ sync_result' = "none"
    /\ UNCHANGED <<infinity_timer, site_stories, disk, meta_object, story_dictonary, bin_path,
                   remote_data, api_response, sitemap_items, last_synced>>

\* fetch_content (lines 193-210) and the first operand of line 343
FetchContent ==
    /\ pc = "fetch"
    /\ \E r \in (IF site_stories = "edited" THEN EditedResponses ELSE Responses) :
         IF r.kind = "error"
         THEN /\ api_response' = None
              /\ pc' = AfterSync
              /\ outcome' = "unsuccessful"
              /\ sync_result' = "False"
         ELSE /\ api_response' = r
              /\ pc' = "validate"
              /\ UNCHANGED <<outcome, sync_result>>
    /\ UNCHANGED <<infinity_timer, site_stories, cycles, disk, memory, sitemap_items, ghost>>

\* ----------------------------------------------------- validate_api_response

\* lines 232-235
MissingThemeField(data) == \E f \in theme_required_fields : f \notin DOMAIN data

\* lines 239-243
InvalidStory(story) == \E f \in story_required_fields : f \notin DOMAIN story

\* index of the first story of the list that lacks a field, 0 if none does
FirstInvalid(stories) ==
    IF \E i \in 1..Len(stories) : InvalidStory(stories[i])
    THEN CHOOSE i \in 1..Len(stories) :
             /\ InvalidStory(stories[i])
             /\ \A j \in 1..(i - 1) : ~InvalidStory(stories[j])
    ELSE 0

\* line 245 run over the first n stories, in order
RECURSIVE RegisterStories(_, _, _)
RegisterStories(dict, stories, n) ==
    IF n = 0 THEN dict
    ELSE DictSet(RegisterStories(dict, stories, n - 1),
                 stories[n].anchor, stories[n])

\* lines 228, 250
Sha256(text) == [sha256 |-> text]
Checksum(data) == Sha256([sorted_keys_dump |-> data])

\* lines 249-255 with the time of the call hashed into the checksum
NewMetaObject_StampedChecksum(data, now) ==
    [checksum     |-> Sha256([sorted_keys_dump |-> data, at |-> now]),
     title        |-> data.title,
     entity       |-> data.entity,
     homepage_url |-> data.homepage_url,
     updated_at   |-> now]

\* lines 249-255; now is the clock at the time of the call
NewMetaObject(data, now) ==
    [checksum     |-> Checksum(data),
     title        |-> data.title,
     entity       |-> data.entity,
     homepage_url |-> data.homepage_url,
     updated_at   |-> now]

\* validate_api_response (lines 212-267) as a function of the response and
\* the object's fields: result is "True", "False" or "raise" (an exception
\* other than JSONDecodeError leaves the method).
validate_api_response(response, dict, data, meta, now) ==
    IF response.code # 200
    THEN [result |-> "False", story_dictonary |-> dict, remote_data |-> data,
          meta_object |-> meta]
    ELSE IF ~response.json
    THEN [result |-> "False", story_dictonary |-> dict, remote_data |-> data,
          meta_object |-> meta]
    ELSE LET new == response.data IN
         IF Truthy(new) /\ MissingThemeField(new)
         THEN [result |-> "False", story_dictonary |-> dict, remote_data |-> new,
               meta_object |-> meta]
         ELSE IF Truthy(new) /\ FirstInvalid(new.stories) # 0
         THEN [result |-> "False",
               story_dictonary |->
                   RegisterStories(dict, new.stories, FirstInvalid(new.stories) - 1),
               remote_data |-> new, meta_object |-> meta]
         ELSE LET d == IF Truthy(new)
                       THEN RegisterStories(dict, new.stories, Len(new.stories))
                       ELSE dict
              IN IF {"title", "entity", "homepage_url"} \subseteq DOMAIN new
                 THEN [result |-> "True", story_dictonary |-> d,
                       remote_data |-> new, meta_object |-> NewMetaObject(new, now)]
                 ELSE [result |-> "raise", story_dictonary |-> d,
                       remote_data |-> new, meta_object |-> meta]

\* second operand of line 343
ValidateApiResponse ==
    /\ pc = "validate"
    /\ LET v == validate_api_response(api_response, story_dictonary, remote_data,
                                      meta_object, cycles)
       IN /\ story_dictonary' = v.story_dictonary
          /\ remote_data' = v.remote_data
          /\ meta_object' = v.meta_object
          /\ IF v.result = "True"
             THEN /\ pc' = "detect"
                  /\ UNCHANGED <<outcome, sync_result>>
             ELSE IF v.result = "False"
             THEN /\ pc' = AfterSync
                  /\ outcome' = "unsuccessful"
                  /\ sync_result' = "False"
             ELSE /\ pc' = "crashed"
                  /\ outcome' = "raised"
                  /\ UNCHANGED sync_result
          \* api_response is a local of sync(): it is gone when sync() is left
          /\ api_response' = IF v.result = "True" THEN api_response ELSE None
    /\ UNCHANGED <<infinity_timer, site_stories, cycles, disk, meta_file_content, bin_path,
                   sitemap_items, ghost>>

\* ------------------------------------------------------------------- sync

\* lines 345-346 with the records compared by their timestamps
ContentChanged_ByTimestamp(meta, new_meta) ==
    \/ ~Truthy(meta)
    \/ "checksum" \notin DOMAIN meta
    \/ meta.updated_at # new_meta.updated_at

\* lines 345-346
ContentChanged(meta, new_meta) ==
    \/ ~Truthy(meta)
    \/ "checksum" \notin DOMAIN meta
    \/ meta.checksum # new_meta.checksum

\* line 349
HasPreviousChecksum(meta) == Truthy(meta) /\ "checksum" \in DOMAIN meta

\* check_dir (lines 52-71) making the directory anew when it exists
check_dir_Recreates(root, name) == DictSet(root, name, EmptyDict)

\* check_dir (lines 52-71) on a directory of the snapshots root
check_dir(root, name) ==
    IF name \in DOMAIN root THEN root ELSE DictSet(root, name, EmptyDict)

\* lines 345-352 and, on the other branch, lines 358-362
DetectChange ==
    /\ pc = "detect"
    /\ IF ContentChanged(meta_file_content, meta_object)
       THEN /\ IF HasPreviousChecksum(meta_file_content)
               THEN /\ bin_path' = [dir |-> meta_file_content.checksum]
                    /\ bin' = check_dir(bin, meta_file_content.checksum)
               ELSE UNCHANGED <<bin_path, bin>>
            /\ pc' = "clean"
            /\ UNCHANGED <<outcome, sync_result, api_response>>
       ELSE /\ pc' = AfterSync
            /\ outcome' = "unchanged"
            /\ sync_result' = "False"
            /\ api_response' = None
            /\ UNCHANGED <<bin_path, bin>>
    /\ UNCHANGED <<infinity_timer, site_stories, cycles, www, meta_file, meta_file_content,
                   meta_object, story_dictonary, remote_data, sitemap_items,
                   ghost>>

\* ------------------------------------------------------ clean_local_storage

\* lines 282-283
Tracked(file, meta) ==
    /\ Truthy(meta)
    /\ "stories" \in DOMAIN meta
    /\ Truthy(meta.stories)
    /\ file \in DOMAIN meta.stories

\* lines 285-298 without the branch of lines 291-293 (updated stories)
MovedToBin_RemovedOnly(file, meta, dict, path) ==
    /\ Tracked(file, meta)
    /\ path # None
    /\ file \notin DOMAIN dict

\* lines 285-298 without the hash comparison of line 291
MovedToBin_AllTracked(file, meta, dict, path) ==
    /\ Tracked(file, meta)
    /\ path # None

\* lines 285-298: the file is renamed into the snapshot directory
MovedToBin(file, meta, dict, path) ==
    /\ Tracked(file, meta)
    /\ path # None
    /\ IF file \in DOMAIN dict
       THEN dict[file].hash # meta.stories[file].hash
       ELSE TRUE

\* lines 300-302 sparing the two rendered files
Removed_KeepsRendered(file, meta) ==
    ~Tracked(file, meta) /\ file \notin {"error.html", "sitemap.xml"}

\* lines 300-302: the file is removed
Removed(file, meta) == ~Tracked(file, meta)

\* clean_local_storage (lines 269-302)
CleanLocalStorage ==
    /\ pc = "clean"
    /\ LET moved == {f \in DOMAIN www :
                        MovedToBin(f, meta_file_content, story_dictonary, bin_path)}
           gone == {f \in DOMAIN www : Removed(f, meta_file_content)}
       IN /\ www' = [f \in DOMAIN www \ (moved \cup gone) |-> www[f]]
          /\ bin' = IF moved = {} THEN bin
                    ELSE [bin EXCEPT ![bin_path.dir] =
                             [f \in DOMAIN @ \cup moved |->
                                 IF f \in moved THEN www[f] ELSE @[f]]]
          /\ archived' = moved
          /\ deleted' = gone
    /\ pc' = "write"
    /\ UNCHANGED <<infinity_timer, site_stories, cycles, meta_file, memory, api_response,
                   sitemap_items, outcome, sync_result, start, last_synced>>

\* ------------------------------------------------------------- sync_stories

\* lines 320-321 run over the first n stories
RECURSIVE WriteStoryFiles(_, _, _)
WriteStoryFiles(dir, stories, n) ==
    IF n = 0 THEN dir
    ELSE DictSet(WriteStoryFiles(dir, stories, n - 1),
                 stories[n].anchor, [text |-> stories[n].content])

\* lines 323-328
MetaEntry(story) ==
    [anchor        |-> story.anchor,
     hash          |-> story.hash,
     canonical_url |-> story.canonical_url,
     updated_at    |-> story.updated_at]

\* lines 323-328 updating the previous record's story map, not a fresh one
RECURSIVE MetaStories_OntoPrevious(_, _)
MetaStories_OntoPrevious(stories, n) ==
    IF n = 0
    THEN IF Truthy(meta_file_content) /\ "stories" \in DOMAIN meta_file_content
         THEN meta_file_content.stories ELSE EmptyDict
    ELSE DictSet(MetaStories_OntoPrevious(stories, n - 1), stories[n].anchor,
                 MetaEntry(stories[n]))

\* lines 313 and 323-328: the story map built over the first n stories
RECURSIVE MetaStories(_, _)
MetaStories(stories, n) ==
    IF n = 0 THEN EmptyDict
    ELSE DictSet(MetaStories(stories, n - 1), stories[n].anchor,
                 MetaEntry(stories[n]))

\* line 332 without the test for the landing page
Priority_Flat(anchor) == "0.8"

\* line 332
Priority(anchor) == IF "index" = anchor THEN "1" ELSE "0.8"

\* create_sitemap_item (lines 142-153)
create_sitemap_item(url, updated_at, priority) ==
    [loc |-> url, lastmod |-> <<updated_at.first19, "+00:00">>,
     priority |-> priority]

\* lines 313-332 with the new record written to meta.json there, ahead of
\* the sitemap and the error page
WriteStories_SavesMeta ==
    /\ pc = "write"
    /\ LET stories == remote_data.stories IN
         /\ www' = WriteStoryFiles(www, stories, Len(stories))
         /\ meta_object' = DictSet(meta_object, "stories",
                                   MetaStories(stories, Len(stories)))
         /\ meta_file' = JsonDump(meta_object')
         /\ sitemap_items' =
                [i \in 1..Len(stories) |->
                    create_sitemap_item(stories[i].canonical_url,
                                        stories[i].updated_at,
                                        Priority(stories[i].anchor))]
    /\ pc' = "sitemap"
    /\ UNCHANGED <<infinity_timer, site_stories, cycles, bin, meta_file_content,
                   story_dictonary, bin_path, remote_data, api_response, outcome,
                   sync_result, ghost>>

\* lines 313-332: the loop of sync_stories
WriteStories ==
    /\ pc = "write"
    /\ LET stories == remote_data.stories IN
         /\ www' = WriteStoryFiles(www, stories, Len(stories))
         /\ meta_object' = DictSet(meta_object, "stories",
                                   MetaStories(stories, Len(stories)))
         /\ sitemap_items' =
                [i \in 1..Len(stories) |->
                    create_sitemap_item(stories[i].canonical_url,
                                        stories[i].updated_at,
                                        Priority(stories[i].anchor))]
    /\ pc' = "sitemap"
    /\ UNCHANGED <<infinity_timer, site_stories, cycles, bin, meta_file, meta_file_content,
                   story_dictonary, bin_path, remote_data, api_response, outcome,
                   sync_result, ghost>>

\* build_sitemap (lines 155-174), called at line 334
BuildSitemap ==
    /\ pc = "sitemap"
    /\ www' = DictSet(www, "sitemap.xml", [urlset |-> sitemap_items])
    \* sitemap_items is a local of sync_stories(), which returns here
    /\ sitemap_items' = <<>>
    /\ pc' = "error_page"
    /\ UNCHANGED <<infinity_timer, site_stories, cycles, bin, meta_file, memory, api_response,
                   outcome, sync_result, ghost>>

\* save_error_page (lines 176-191), called at line 355
SaveErrorPage ==
    /\ pc = "error_page"
    /\ IF Truthy(remote_data) /\ "error_page" \in DOMAIN remote_data
       THEN www' = DictSet(www, "error.html", [text |-> remote_data.error_page])
       ELSE UNCHANGED www
    /\ pc' = "save_meta"
    /\ UNCHANGED <<infinity_timer, site_stories, cycles, bin, meta_file, memory, api_response,
                   sitemap_items, outcome, sync_result, ghost>>

\* ---------------------------------------------------------------- save_meta

\* lines 124-127 skipped: the old meta.json stays where it is
MoveOldMeta_Skips(root, path, file) == root

\* lines 124-127: the old meta.json is renamed into the snapshot directory
MoveOldMeta(root, path, file) ==
    IF path # None /\ file # None
    THEN [root EXCEPT ![path.dir] = DictSet(@, META_FILE_NAME, file)]
    ELSE root

\* lines 129-132: open(..., "w") and json.dump write the new record
DumpedMeta(obj) == JsonDump(obj)

\* lines 129-137 when json.dump raises ValueError: open(..., "w") has
\* truncated the file and nothing, or part of the text, was written
TruncatedMeta == MalformedMeta

\* save_meta (lines 118-140) called at line 356, then lines 361-362
SaveMeta ==
    /\ pc = "save_meta"
    /\ IF Truthy(meta_object)
       THEN /\ bin' = MoveOldMeta(bin, bin_path, meta_file)
            /\ meta_file' = DumpedMeta(meta_object)
            /\ last_synced' = [document |-> remote_data, cycle |-> cycles]
       ELSE UNCHANGED <<bin, meta_file, last_synced>>
    /\ pc' = AfterSync
    /\ outcome' = "changed"
    /\ sync_result' = "False"
    /\ api_response' = None
    /\ UNCHANGED <<infinity_timer, site_stories, cycles, www, memory, sitemap_items, start,
                   archived, deleted>>

\* the same call when json.dump raises ValueError (lines 134-137)
SaveMetaFails ==
    /\ pc = "save_meta"
    /\ Truthy(meta_object)
    /\ bin' = MoveOldMeta(bin, bin_path, meta_file)
    /\ meta_file' = TruncatedMeta
    /\ pc' = AfterSync
    /\ outcome' = "changed_unsaved"
    /\ sync_result' = "False"
    /\ api_response' = None
    /\ UNCHANGED <<infinity_timer, site_stories, cycles, www, memory, sitemap_items, ghost>>

\* ------------------------------------------------------ loop and processes

\* line 407: time.sleep(infinity_timer), then the next turn of `while True`
Sleep ==
    /\ pc = "sleep"
    /\ cycles < MaxCycles
    /\ pc' = "read_meta"
    /\ UNCHANGED <<infinity_timer, site_stories, cycles, disk, memory, api_response,
                   sitemap_items, outcome, sync_result, ghost>>

\* The process has ended (one-shot run over, or uncaught exception) and the
\* script is started again: the class attributes are those of lines 76-82,
\* the disk is as it was left.
Restart ==
    /\ pc \in {"exited", "crashed"}
    /\ cycles < MaxCycles
    /\ pc' = "read_meta"
    /\ meta_file_content' = None
    /\ meta_object' = None
    /\ story_dictonary' = EmptyDict
    /\ bin_path' = None
    /\ remote_data' = Unset
    /\ api_response' = None
    /\ sitemap_items' = <<>>
    /\ UNCHANGED <<infinity_timer, site_stories, cycles, disk, outcome, sync_result, ghost>>

Next ==
    \/ ReadMeta
    \/ FetchContent
    \/ ValidateApiResponse
    \/ DetectChange
    \/ CleanLocalStorage
    \/ WriteStories
    \/ BuildSitemap
    \/ SaveErrorPage
    \/ SaveMeta
    \/ Sleep
    \/ Restart

Spec == Init /\ [][Next]_vars

\* The same program when json.dump of the new record can raise ValueError.
NextDumpFails == Next \/ SaveMetaFails

SpecDumpFails == Init /\ [][NextDumpFails]_vars

\* The same program against the site of EditedStories.
SpecEdited == InitEdited /\ [][Next]_vars

\* ------------------------------------------------------- claims: vocabulary

\* sync() has returned to the main program
CycleDone == pc \in {"sleep", "exited"}

\* the cycle ran the CHANGED path to its end
ChangedDone == CycleDone /\ outcome = "changed"

\* the cycle is past a successful validation
Validated ==
    \/ pc \in {"detect", "clean", "write", "sitemap", "error_page", "save_meta"}
    \/ CycleDone /\ outcome \in {"unchanged", "changed"}

\* the metadata record on disk when the cycle started, None if there was none
PrevMeta ==
    IF JsonParses(start.meta_file) THEN JsonLoad(start.meta_file) ELSE None

\* anchors of the fetched story list
NewAnchors ==
    {remote_data.stories[i].anchor : i \in 1..Len(remote_data.stories)}

\* the story the fetched list holds for an anchor: the last one of that name
NewStory(a) ==
    LET last == CHOOSE i \in 1..Len(remote_data.stories) :
                    /\ remote_data.stories[i].anchor = a
                    /\ \A j \in (i + 1)..Len(remote_data.stories) :
                           remote_data.stories[j].anchor # a
    IN remote_data.stories[last]

\* tracked by the previous record and live when the cycle started
TrackedAtStart ==
    IF Truthy(PrevMeta) THEN DOMAIN PrevMeta.stories \cap DOMAIN start.www ELSE {}

\* the file is in the snapshot directory named by the previous checksum,
\* with the content it had in the content directory when the cycle started
InSnapshot(a) ==
    /\ PrevMeta.checksum \in DOMAIN bin
    /\ a \in DOMAIN bin[PrevMeta.checksum]
    /\ bin[PrevMeta.checksum][a] = start.www[a]

\* ------------------------------------------------------------------ claims

\* C1: after a CHANGED cycle with a previous record, every tracked anchor
\* that the fetched story set lacks has its file in the snapshot directory of
\* the previous checksum and no file in the content directory.
C1_RemovedStoriesArchived ==
    (ChangedDone /\ Truthy(PrevMeta)) =>
        \A a \in TrackedAtStart :
            a \notin NewAnchors => (InSnapshot(a) /\ a \notin DOMAIN www)

\* C2: when the checksum of the record on disk equals the checksum of the
\* fetched document the cycle takes the UNCHANGED path, and the content
\* directory, the snapshots and meta.json stay as they were at its start.
C2_UnchangedTouchesNothing ==
    (/\ Validated
     /\ Truthy(PrevMeta)
     /\ "checksum" \in DOMAIN PrevMeta
     /\ PrevMeta.checksum = Checksum(remote_data))
        => /\ pc \in {"detect", "sleep", "exited"}
           /\ CycleDone => outcome = "unchanged"
           /\ www = start.www
           /\ bin = start.bin
           /\ meta_file = start.meta_file

C2_Witness ==
    /\ CycleDone
    /\ outcome = "unchanged"
    /\ DOMAIN start.www # {}
    /\ PrevMeta.checksum = Checksum(remote_data)

\* tracked anchors whose story the fetched list holds with another hash
UpdatedAnchors ==
    {a \in TrackedAtStart :
        a \in NewAnchors /\ NewStory(a).hash # PrevMeta.stories[a].hash}

\* C3: after a CHANGED cycle, for every tracked anchor the fetched list
\* holds with a hash other than the recorded one (the list's last story of
\* that anchor), the old file and the old meta.json are in the snapshot
\* directory of the previous checksum and the live file of that name holds
\* the new story content.
C3_UpdatedStoriesArchivedAndRewritten ==
    ChangedDone =>
        \A a \in UpdatedAnchors :
            /\ InSnapshot(a)
            /\ META_FILE_NAME \in DOMAIN bin[PrevMeta.checksum]
            /\ bin[PrevMeta.checksum][META_FILE_NAME] = start.meta_file
            /\ a \in DOMAIN www
            /\ www[a] = [text |-> NewStory(a).content]

C3_Witness ==
    /\ ChangedDone
    /\ \E a \in UpdatedAnchors : www[a] # start.www[a]

\* files live at the start of the cycle that the previous record does not track
ForeignAtStart ==
    {f \in DOMAIN start.www :
        ~(Truthy(PrevMeta) /\ f \in DOMAIN PrevMeta.stories)}

\* the CHANGED path is past clean_local_storage
Reconciled ==
    pc \in {"write", "sitemap", "error_page", "save_meta"} \/ ChangedDone

\* C4: in a CHANGED cycle every file of the content directory that the
\* previous record does not track is removed by clean_local_storage (it is
\* gone when the method returns) and is not moved into a snapshot directory:
\* no snapshot directory gains or changes a file of that name.
C4_ForeignFilesDeletedNotArchived ==
    Reconciled =>
        \A f \in ForeignAtStart :
            /\ f \in deleted
            /\ f \notin archived
            /\ pc = "write" => f \notin DOMAIN www
            /\ \A d \in DOMAIN bin :
                   f \in DOMAIN bin[d] =>
                       /\ d \in DOMAIN start.bin
                       /\ f \in DOMAIN start.bin[d]
                       /\ bin[d][f] = start.bin[d][f]

C4_Witness ==
    /\ pc = "write"
    /\ Truthy(PrevMeta)
    /\ ForeignAtStart # {}
    /\ archived # {}

\* a payload the validator is to reject: a required top-level field is
\* missing, or some story lacks a required story field
IncompletePayload(data) ==
    \/ MissingThemeField(data)
    \/ \E i \in 1..Len(data.stories) : InvalidStory(data.stories[i])

\* a response on which the cycle fails at validation
FailsValidation(response) ==
    \/ response.code # 200
    \/ ~response.json
    \/ IncompletePayload(response.data)

\* C5: a cycle that fails at fetch or at validation is aborted and reports
\* failure (sync() returns its failure value after "Update Unsuccessful"),
\* and the content directory, the snapshots and meta.json are as they were
\* when the cycle started.
C5_FailedCycleReportsAndTouchesNothing ==
    [][(\/ pc = "fetch" /\ pc' # "validate"
        \/ pc = "validate" /\ FailsValidation(api_response))
          => /\ pc' \in {"sleep", "exited"}
             /\ outcome' = "unsuccessful"
             /\ sync_result' = "False"
             /\ www' = start.www
             /\ bin' = start.bin
             /\ meta_file' = start.meta_file]_vars

\* C6: on a parsed payload the validator returns failure when a required
\* top-level field is missing (the empty object included) or a story lacks
\* a required field, and success when all top-level fields are there and
\* the stories list is empty.
C6_ValidatorReturnsFailure ==
    (pc = "validate" /\ api_response.code = 200 /\ api_response.json) =>
        LET data == api_response.data
            v == validate_api_response(api_response, story_dictonary,
                                       remote_data, meta_object, cycles)
        IN /\ IncompletePayload(data) => v.result = "False"
           /\ (~MissingThemeField(data) /\ data.stories = <<>>)
                  => v.result = "True"

\* C7: in Infinity mode no cycle ends the process.
C7_InfinityModeNeverTerminates ==
    InfinityMode => pc \notin {"crashed", "exited"}

\* C8: read_meta gives None when meta.json is missing and when it is there
\* but does not parse; no exception leaves it and the cycle goes on to fetch
\* with no previous state.
C8_UnreadableMetaReadAsAbsent ==
    [][(pc = "read_meta" /\ ~JsonParses(meta_file))
          => (pc' = "fetch" /\ meta_file_content' = None)]_vars

\* C9: when json.dump of the new record fails in save_meta, the record that
\* was live before the cycle is still the content of meta.json and reads
\* back as before.
C9_FailedDumpKeepsLiveRecord ==
    (CycleDone /\ outcome = "changed_unsaved" /\ Truthy(PrevMeta)) =>
        /\ meta_file = start.meta_file
        /\ read_meta(meta_file) = [raised |-> FALSE, value |-> PrevMeta]

\* the cycle fetched the document of the record an earlier cycle saved
RefetchedLastSynced ==
    /\ Validated
    /\ last_synced # None
    /\ last_synced.cycle < cycles
    /\ remote_data = last_synced.document

\* C10: a cycle that fetches the document a completed CHANGED cycle has
\* saved the record of, in the same process or after a restart, takes the
\* UNCHANGED path and leaves the content directory, the snapshots and
\* meta.json as they were.
C10_ResyncIsIdempotent ==
    RefetchedLastSynced =>
        /\ pc \in {"detect", "sleep", "exited"}
        /\ CycleDone => outcome = "unchanged"
        /\ www = start.www
        /\ bin = start.bin
        /\ meta_file = start.meta_file

C10_Witness ==
    /\ RefetchedLastSynced
    /\ pc = "exited"
    /\ outcome = "unchanged"
    /\ Len(remote_data.stories) > 0

\* C11: sync() returns its failure value when the fetch or the validation
\* fails and its success value when the cycle completes, on the UNCHANGED
\* path or at the end of the CHANGED path.
C11_SyncReturnsSuccessOrFailure ==
    CycleDone =>
        /\ outcome = "unsuccessful" => sync_result = "False"
        /\ outcome \in {"unchanged", "changed"} => sync_result = "True"

\* the record meta.json holds
LiveMeta == JsonLoad(meta_file)

\* the CHANGED path is past the creation of the snapshot directory
PastArchive ==
    pc \in {"clean", "write", "sitemap", "error_page", "save_meta"} \/ ChangedDone

\* C12: a snapshot directory appears only on the CHANGED path of a cycle
\* that found a previous checksum, under the name of that checksum, and
\* check_dir on a directory that exists changes nothing.  A CHANGED cycle
\* without a previous record creates no snapshot directory, writes every
\* fetched story and saves a record listing exactly the fetched anchors with
\* their hashes.
C12_SnapshotNamedByPreviousChecksum ==
    /\ pc # "read_meta" =>
           \A d \in DOMAIN bin \ DOMAIN start.bin :
               /\ PastArchive
               /\ Truthy(PrevMeta)
               /\ d = PrevMeta.checksum
    /\ \A d \in DOMAIN bin : check_dir(bin, d) = bin
    /\ (ChangedDone /\ ~Truthy(PrevMeta)) =>
           /\ bin = start.bin
           /\ DOMAIN LiveMeta.stories = NewAnchors
           /\ \A a \in NewAnchors :
                  /\ a \in DOMAIN www
                  /\ www[a] = [text |-> NewStory(a).content]
                  /\ LiveMeta.stories[a].hash = NewStory(a).hash

C12_Witness ==
    /\ ChangedDone
    /\ Truthy(PrevMeta)
    /\ start.bin = EmptyDict
    /\ DOMAIN bin = {PrevMeta.checksum}
    /\ Cardinality(DOMAIN PrevMeta.stories) = 2
    /\ DOMAIN PrevMeta.stories \subseteq DOMAIN start.www

\* C13: with an interval of at least MIN_SYNC_CYCLE the process goes on
\* forever, never ending, each cycle starting with a read of meta.json after
\* the sleep that follows the cycle before; with the interval unset or
\* below MIN_SYNC_CYCLE the process runs one cycle and exits: it never
\* sleeps, and a cycle starts only in a process that was just started.
C13_LoopForeverOrRunOnce ==
    [][/\ infinity_timer >= MIN_SYNC_CYCLE =>
              /\ pc' \notin {"exited", "crashed"}
              /\ (pc' = "read_meta" /\ pc # "read_meta") => pc = "sleep"
              /\ pc = "sleep" => (CycleDone /\ pc' = "read_meta")
       /\ infinity_timer < MIN_SYNC_CYCLE =>
              /\ pc' # "sleep"
              /\ (pc' = "read_meta" /\ pc # "read_meta") =>
                     (pc \in {"exited", "crashed"} /\ meta_object' = None)
      ]_vars

\* the sitemap the fetched story list renders to
RenderedSitemap ==
    [urlset |->
        [i \in 1..Len(remote_data.stories) |->
            [loc      |-> remote_data.stories[i].canonical_url,
             lastmod  |-> <<remote_data.stories[i].updated_at.first19, "+00:00">>,
             priority |-> IF remote_data.stories[i].anchor = "index"
                          THEN "1" ELSE "0.8"]]]

\* sitemap.xml holds the rendering of the fetched story list
SitemapRendered ==
    "sitemap.xml" \in DOMAIN www /\ www["sitemap.xml"] = RenderedSitemap

\* error.html holds the fetched error page
ErrorPageRendered ==
    "error.html" \in DOMAIN www
        /\ www["error.html"] = [text |-> remote_data.error_page]

\* meta.json holds the record of the fetched document
NewRecordWritten ==
    JsonParses(meta_file) /\ LiveMeta.checksum = Checksum(remote_data)

\* C14 as stated: on the CHANGED path the new record is in meta.json before
\* the sitemap and the error page are regenerated.
C14_MetaPersistedBeforeRender ==
    pc \in {"sitemap", "error_page"} => NewRecordWritten

\* C14 as the code has it: ARCHIVE, RECONCILE, RENDER, PERSIST_META.  The
\* snapshot directory is there before clean_local_storage touches the
\* content directory; the stories are written before the sitemap, the
\* sitemap before the error page; meta.json is as it was at cycle start
\* until both are regenerated, and holds the new record at the end.
C14_RenderBeforeMetaPersisted ==
    /\ pc = "clean" => www = start.www
    /\ (PastArchive /\ Truthy(PrevMeta)) => PrevMeta.checksum \in DOMAIN bin
    /\ pc = "sitemap" =>
           \A a \in NewAnchors :
               a \in DOMAIN www /\ www[a] = [text |-> NewStory(a).content]
    /\ pc = "error_page" => SitemapRendered
    /\ pc = "save_meta" => (SitemapRendered /\ ErrorPageRendered)
    /\ pc \in {"clean", "write", "sitemap", "error_page", "save_meta"} =>
           (meta_file = start.meta_file /\ ~NewRecordWritten)
    /\ ChangedDone =>
           (SitemapRendered /\ ErrorPageRendered /\ NewRecordWritten)

C14_Witness ==
    /\ pc = "save_meta"
    /\ Truthy(PrevMeta)
    /\ SitemapRendered
    /\ ErrorPageRendered
    /\ Len(remote_data.stories) > 0

\* tracked files whose anchor the fetched list holds with the recorded hash
MatchedAnchors ==
    IF Truthy(PrevMeta)
    THEN {a \in TrackedAtStart \cap NewAnchors :
             NewStory(a).hash = PrevMeta.stories[a].hash}
    ELSE {}

\* the loop of sync_stories has run in this CHANGED cycle
StoriesWritten ==
    pc \in {"sitemap", "error_page", "save_meta"} \/ ChangedDone

\* C15: in a CHANGED cycle reconcile neither archives nor deletes a tracked
\* file whose anchor the fetched list holds with the recorded hash, and
\* leaves it as it was; after the write step every fetched anchor, those
\* with a matching hash included, is a live file holding the content of its
\* story (the last story of that anchor).
C15_MatchedKeptThenAllWritten ==
    /\ Reconciled =>
          \A a \in MatchedAnchors :
              /\ a \notin archived
              /\ a \notin deleted
              /\ \A d \in DOMAIN bin : a \in DOMAIN bin[d] => a \in DOMAIN start.bin[d]
              /\ pc = "write" => a \in DOMAIN www /\ www[a] = start.www[a]
    /\ StoriesWritten =>
          \A a \in NewAnchors :
              a \in DOMAIN www /\ www[a] = [text |-> NewStory(a).content]

\* a hash-matched file was kept out of the snapshot and rewritten with new
\* content, next to a tracked file that was archived
C15_Witness ==
    /\ ChangedDone
    /\ \E a \in MatchedAnchors :
          /\ www[a] # start.www[a]
          /\ www[a] = [text |-> NewStory(a).content]
          /\ a \notin archived
    /\ archived # {}

\* the metadata records kept in snapshot directories
SnapshotRecords == {d \in DOMAIN bin : META_FILE_NAME \in DOMAIN bin[d]}

\* C16: every metadata record in a snapshot directory is a readable record
\* whose checksum is the name of the directory; until save_meta runs the
\* live meta.json is the one of the cycle's start, and after a CHANGED cycle
\* with a previous record that old file is in the snapshot directory of its
\* checksum and the live file is the new record; the live record has the
\* checksum of the last document a cycle synced.
C16_OldRecordInItsSnapshot ==
    /\ \A d \in SnapshotRecords :
          /\ JsonParses(bin[d][META_FILE_NAME])
          /\ JsonLoad(bin[d][META_FILE_NAME]).checksum = d
    /\ pc \in {"fetch", "validate", "detect", "clean", "write", "sitemap",
               "error_page", "save_meta"} =>
          /\ meta_file = start.meta_file
          /\ \A d \in SnapshotRecords :
                d \in DOMAIN start.bin /\ META_FILE_NAME \in DOMAIN start.bin[d]
    /\ ChangedDone /\ Truthy(PrevMeta) =>
          /\ PrevMeta.checksum \in SnapshotRecords
          /\ bin[PrevMeta.checksum][META_FILE_NAME] = start.meta_file
          /\ meta_file = JsonDump(meta_object)
          /\ meta_file # start.meta_file
    /\ last_synced # None =>
          /\ JsonParses(meta_file)
          /\ LiveMeta.checksum = Checksum(last_synced.document)

\* a CHANGED cycle moved the previous record into the snapshot directory of
\* its checksum and wrote a record with another checksum
C16_Witness ==
    /\ ChangedDone
    /\ Truthy(PrevMeta)
    /\ SnapshotRecords = {PrevMeta.checksum}
    /\ bin[PrevMeta.checksum][META_FILE_NAME] = start.meta_file
    /\ LiveMeta.checksum = Checksum(remote_data)
    /\ LiveMeta.checksum # PrevMeta.checksum

\* anchors the previous record tracks and the fetched list lacks
DroppedAnchors ==
    IF Truthy(PrevMeta) THEN DOMAIN PrevMeta.stories \ NewAnchors ELSE {}

\* C17: after a completed CHANGED cycle the story map of the saved record
\* has exactly the anchors of the fetched stories as keys, each entry being
\* the anchor, hash, canonical_url and updated_at of the last fetched story
\* of that anchor and nothing else; no anchor of the previous record that
\* the fetched list lacks is a key.
C17_StoryMapRebuiltFromDocument ==
    ChangedDone =>
        /\ JsonParses(meta_file)
        /\ DOMAIN LiveMeta.stories = NewAnchors
        /\ \A a \in NewAnchors :
              /\ DOMAIN LiveMeta.stories[a] =
                     {"anchor", "hash", "canonical_url", "updated_at"}
              /\ \A k \in DOMAIN LiveMeta.stories[a] :
                     LiveMeta.stories[a][k] = NewStory(a)[k]
        /\ DroppedAnchors \cap DOMAIN LiveMeta.stories = {}

\* the previous record tracked a story the fetched list lacks, and the
\* fetched list names one anchor twice with different hashes
C17_Witness ==
    /\ ChangedDone
    /\ DroppedAnchors # {}
    /\ Len(remote_data.stories) = 2
    /\ remote_data.stories[1].anchor = remote_data.stories[2].anchor
    /\ remote_data.stories[1].hash # remote_data.stories[2].hash
    /\ LiveMeta.stories[remote_data.stories[1].anchor].hash
           = remote_data.stories[2].hash

\* C18: after every completed CHANGED cycle error.html holds the fetched
\* error_page and sitemap.xml holds one entry per story of the fetched list,
\* in its order, with the story's canonical_url and priority 1 for the
\* anchor index and 0.8 for any other (no entry for no story); in no state
\* is error.html among the archived files or in a snapshot directory.
C18_ErrorPageAndSitemapRegenerated ==
    /\ ChangedDone =>
          /\ "error.html" \in DOMAIN www
          /\ www["error.html"] = [text |-> remote_data.error_page]
          /\ "sitemap.xml" \in DOMAIN www
          /\ LET items == www["sitemap.xml"].urlset
                 stories == remote_data.stories
             IN /\ Len(items) = Len(stories)
                /\ \A i \in 1..Len(stories) :
                      /\ items[i].loc = stories[i].canonical_url
                      /\ items[i].lastmod[1] = stories[i].updated_at.first19
                      /\ stories[i].anchor = "index" => items[i].priority = "1"
                      /\ stories[i].anchor # "index" => items[i].priority = "0.8"
    /\ "error.html" \notin archived
    /\ \A d \in DOMAIN bin : "error.html" \notin DOMAIN bin[d]

\* a CHANGED cycle in which no story file changed (the same two stories in
\* another order) with an error page from the cycle before
C18_Witness ==
    /\ ChangedDone
    /\ Truthy(PrevMeta)
    /\ "error.html" \in DOMAIN start.www
    /\ archived = {}
    /\ NewAnchors = {"index", "about"}
    /\ \A a \in NewAnchors : a \in DOMAIN start.www /\ www[a] = start.www[a]
    /\ Len(www["sitemap.xml"].urlset) = 2
    /\ {www["sitemap.xml"].urlset[i].priority : i \in 1..2} = {"1", "0.8"}

\* the story files of the content directory
LiveStoryFiles == DOMAIN www \ {"error.html", "sitemap.xml"}

\* C19: after every completed CHANGED cycle the story files of the content
\* directory (all files but error.html and sitemap.xml) are exactly the keys
\* of the story map of the live record, which are exactly the anchors of
\* the document just synced.
C19_LiveFilesMirrorMetadata ==
    ChangedDone =>
        /\ JsonParses(meta_file)
        /\ LiveStoryFiles = DOMAIN LiveMeta.stories
        /\ DOMAIN LiveMeta.stories = NewAnchors

\* what a process that ran no earlier cycle holds in memory at reconcile:
\* the anchor-to-story map of the fetched list alone, and the snapshot path
\* of the record on disk
FreshDictionary ==
    RegisterStories(EmptyDict, remote_data.stories, Len(remote_data.stories))

FreshBinPath ==
    IF HasPreviousChecksum(PrevMeta) THEN [dir |-> PrevMeta.checksum] ELSE None

\* C20: what reconcile archives and deletes in a CHANGED cycle is what a
\* process that ran no earlier cycle archives and deletes from the same
\* on-disk state with the same response: the outcome is a function of the
\* disk at the start of the cycle and of the response, whatever cycles the
\* process ran before.
C20_CycleResultIndependentOfHistory ==
    Reconciled =>
        /\ archived = {f \in DOMAIN start.www :
                          MovedToBin(f, PrevMeta, FreshDictionary, FreshBinPath)}
        /\ deleted = {f \in DOMAIN start.www : Removed(f, PrevMeta)}
        /\ pc = "write" =>
              www = [f \in DOMAIN start.www \ (archived \cup deleted) |-> start.www[f]]

====
